---- MODULE Spec2Model ----
(***************************************************************************)
(* Food Court Ordering API: the document store helpers (database.py), the  *)
(* request schemas (schemas.py) and the route handlers (main.py).          *)
(***************************************************************************)
EXTENDS Integers, Sequences, FiniteSets, TLC

(***************************************************************************)
(* Arithmetic on naturals of arbitrary size, as little-endian sequences of *)
(* limbs.  IEEE-754 doubles carry 53-bit significands and their products   *)
(* carry 106 bits, so the Python float operations of create_order are      *)
(* computed on these.  The canonical form has no high zero limb; zero is   *)
(* the empty sequence.                                                     *)
(***************************************************************************)
Base == 2^12

RECURSIVE IntBitLen(_)
IntBitLen(n) == IF n = 0 THEN 0 ELSE 1 + IntBitLen(n \div 2)

LimbBits == IntBitLen(Base) - 1

RECURSIVE BigNorm(_)
BigNorm(a) ==
    IF a = <<>> THEN <<>>
    ELSE IF a[Len(a)] = 0 THEN BigNorm(SubSeq(a, 1, Len(a) - 1))
    ELSE a

RECURSIVE BigFromInt(_)
BigFromInt(n) ==
    IF n = 0 THEN <<>> ELSE <<n % Base>> \o BigFromInt(n \div Base)

RECURSIVE BigAddC(_, _, _)
BigAddC(a, b, c) ==
    IF a = <<>> /\ b = <<>> THEN (IF c = 0 THEN <<>> ELSE <<c>>)
    ELSE LET x == IF a = <<>> THEN 0 ELSE a[1]
             y == IF b = <<>> THEN 0 ELSE b[1]
             s == x + y + c
         IN  <<s % Base>> \o
             BigAddC(IF a = <<>> THEN <<>> ELSE Tail(a),
                     IF b = <<>> THEN <<>> ELSE Tail(b), s \div Base)

BigAdd(a, b) == BigNorm(BigAddC(a, b, 0))

RECURSIVE BigMulSmallC(_, _, _)
BigMulSmallC(a, k, c) ==
    IF a = <<>> THEN (IF c = 0 THEN <<>> ELSE <<c>>)
    ELSE LET s == a[1] * k + c
         IN  <<s % Base>> \o BigMulSmallC(Tail(a), k, s \div Base)

\* a * k for 0 <= k < Base
BigMulSmall(a, k) == BigNorm(BigMulSmallC(a, k, 0))

RECURSIVE BigMul(_, _)
BigMul(a, b) ==
    IF b = <<>> \/ a = <<>> THEN <<>>
    ELSE BigAdd(BigMulSmall(a, b[1]),
                LET r == BigMul(a, Tail(b)) IN IF r = <<>> THEN <<>> ELSE <<0>> \o r)

BigBitLen(a) ==
    IF a = <<>> THEN 0 ELSE LimbBits * (Len(a) - 1) + IntBitLen(a[Len(a)])

\* bit i (from 0) of a
BigBit(a, i) ==
    LET k == (i \div LimbBits) + 1
    IN  IF k > Len(a) THEN 0 ELSE (a[k] \div 2^(i % LimbBits)) % 2

\* whether a has a nonzero bit below bit n
BigLowNonzero(a, n) ==
    LET k == n \div LimbBits
        r == n % LimbBits
    IN  \/ \E i \in 1..Len(a) : i <= k /\ a[i] # 0
        \/ k + 1 <= Len(a) /\ a[k + 1] % 2^r # 0

RECURSIVE Zeros(_)
Zeros(n) == IF n = 0 THEN <<>> ELSE <<0>> \o Zeros(n - 1)

\* a * 2^n
BigShl(a, n) ==
    IF a = <<>> THEN <<>>
    ELSE Zeros(n \div LimbBits) \o BigMulSmall(a, 2^(n % LimbBits))

\* quotient of a by d, 0 < d < Base, dividing from the high limb down
RECURSIVE BigDivSmallR(_, _, _)
BigDivSmallR(a, d, rem) ==
    IF a = <<>> THEN [q |-> <<>>, r |-> rem]
    ELSE LET cur  == rem * Base + a[Len(a)]
             rest == BigDivSmallR(SubSeq(a, 1, Len(a) - 1), d, cur % d)
         IN  [q |-> rest.q \o <<cur \div d>>, r |-> rest.r]

BigDivSmall(a, d) ==
    LET x == BigDivSmallR(a, d, 0) IN [q |-> BigNorm(x.q), r |-> x.r]

\* floor(a / 2^n)
BigShr(a, n) ==
    LET k == n \div LimbBits
    IN  IF k >= Len(a) THEN <<>>
        ELSE BigDivSmall(SubSeq(a, k + 1, Len(a)), 2^(n % LimbBits)).q

BigOdd(a) == a # <<>> /\ a[1] % 2 = 1

\* a / 2^n rounded to the nearest integer; 'tiesUp' sends a half to the next
\* integer, otherwise a half goes to the even neighbour.  'sticky' says that
\* the value a stands for has a nonzero part below its last bit.
BigShrRound(a, n, sticky, tiesUp) ==
    IF n = 0 THEN a
    ELSE LET q    == BigShr(a, n)
             half == BigBit(a, n - 1) = 1
             low  == BigLowNonzero(a, n - 1) \/ sticky
             up   == half /\ (low \/ tiesUp \/ BigOdd(q))
         IN  IF up THEN BigAdd(q, <<1>>) ELSE q

(***************************************************************************)
(* Python floats: non-negative finite IEEE-754 doubles, held exactly as    *)
(* m * 2^e with m odd (canonical), zero as m = <<>>, e = 0.  The amounts   *)
(* of a cart are far from the subnormal and overflow ranges, which are not *)
(* modelled.  Every operation rounds its exact result to a 53-bit          *)
(* significand, ties to even, as the hardware does.                        *)
(***************************************************************************)
\* the number of zero bits below the lowest one bit of m # 0
TrailingZeros(m) ==
    LET k == CHOOSE i \in 1..Len(m) : m[i] # 0 /\ \A j \in 1..(i - 1) : m[j] = 0
        z == CHOOSE i \in 0..LimbBits : m[k] % 2^i = 0 /\ m[k] % 2^(i + 1) # 0
    IN  LimbBits * (k - 1) + z

FCanon(m, e) ==
    IF m = <<>> THEN [m |-> <<>>, e |-> 0]
    ELSE LET z == TrailingZeros(m) IN [m |-> BigShr(m, z), e |-> e + z]

\* the double nearest to m * 2^e (plus a nonzero tail when sticky)
FRound(m, e, sticky) ==
    LET n == BigBitLen(m)
    IN  IF n <= 53 THEN FCanon(m, e)
        ELSE FCanon(BigShrRound(m, n - 53, sticky, FALSE), e + (n - 53))

FZero == FCanon(<<>>, 0)

\* float(n) for an int n >= 0
FFromInt(n) == FRound(BigFromInt(n), 0, FALSE)

\* the double a decimal literal n / d denotes (0 < d < Base): the quotient
\* is taken to 72 fractional bits, the remainder kept as the sticky bit
FFromRatio(n, d) ==
    LET x == BigDivSmall(BigShl(n, 72), d)
    IN  FRound(x.q, -72, x.r # 0)

FMul(x, y) == FRound(BigMul(x.m, y.m), x.e + y.e, FALSE)

FAdd(x, y) ==
    IF x.m = <<>> THEN y
    ELSE IF y.m = <<>> THEN x
    ELSE LET e == IF x.e < y.e THEN x.e ELSE y.e
         IN  FRound(BigAdd(BigShl(x.m, x.e - e), BigShl(y.m, y.e - e)), e, FALSE)

\* x * 100 rounded to an integer number of hundredths
Hundredths(x, tiesUp) ==
    LET h == BigMulSmall(x.m, 100)
    IN  IF x.e >= 0 THEN BigShl(h, x.e) ELSE BigShrRound(h, -x.e, FALSE, tiesUp)

\* Python's round(x, 2): the decimal with 2 fractional digits nearest to the
\* exact value of x, a tie going to the even digit, read back as a double
Round2(x) == FFromRatio(Hundredths(x, FALSE), 100)

(***************************************************************************)
(* Bounds of the model.                                                    *)
(***************************************************************************)
\* hex digits of an identifier string (24 in bson; scaled down)
IdLen == 2

\* ObjectIds the process generates in a run
MaxOids == 2

\* the clock runs over 0 .. MaxClock milliseconds
MaxClock == 1

(***************************************************************************)
(* Identifier codec: bson.ObjectId <-> str.  A native key is a natural     *)
(* number below 16^IdLen; its string form is IdLen lowercase hex digits,   *)
(* a sequence of one-character strings.                                    *)
(***************************************************************************)
HexChars == <<"0", "1", "2", "3", "4", "5", "6", "7",
              "8", "9", "a", "b", "c", "d", "e", "f">>

UpperChars == <<"0", "1", "2", "3", "4", "5", "6", "7",
                "8", "9", "A", "B", "C", "D", "E", "F">>

IsHex(ch) == \E i \in 1..16 : HexChars[i] = ch \/ UpperChars[i] = ch

HexValue(ch) == (CHOOSE i \in 1..16 : HexChars[i] = ch \/ UpperChars[i] = ch) - 1

\* str.upper()
Upper(str) ==
    [i \in 1..Len(str) |->
        IF \E k \in 1..16 : HexChars[k] = str[i]
        THEN UpperChars[CHOOSE k \in 1..16 : HexChars[k] = str[i]]
        ELSE str[i]]

\* str(ObjectId): the key's digits, most significant first, in lowercase
ObjectIdStr(oid) ==
    [i \in 1..IdLen |-> HexChars[((oid \div 16^(IdLen - i)) % 16) + 1]]

RECURSIVE HexNumber(_)
HexNumber(str) ==
    IF str = <<>> THEN 0
    ELSE 16 * HexNumber(SubSeq(str, 1, Len(str) - 1)) + HexValue(str[Len(str)])

\* ObjectId(str): bson.errors.InvalidId unless str is IdLen hex digits of
\* either case (bytes.fromhex)
ObjectId(str) ==
    IF Len(str) = IdLen /\ \A i \in 1..Len(str) : IsHex(str[i])
    THEN [ok |-> TRUE, oid |-> HexNumber(str)]
    ELSE [ok |-> FALSE, oid |-> 0]

(***************************************************************************)
(* State.                                                                  *)
(***************************************************************************)
VARIABLES
    dbReady,   \* database.db is not None (set once, when the module loads)
    colls,     \* db[collection_name]: the documents, in insertion order
    now,       \* datetime.now(timezone.utc), in the milliseconds BSON keeps
    nextOid,   \* the next ObjectId the driver generates
    pc,        \* signup requests in flight: where each one stands
    last       \* the call that made the last step, and how it ended

vars == <<dbReady, colls, now, nextOid, pc, last>>

Collections == {"user", "category", "fooditem", "order"}

\* a document or payload: a function from field names to values
Merge(doc, upd) ==
    [f \in DOMAIN doc \cup DOMAIN upd |-> IF f \in DOMAIN upd THEN upd[f] ELSE doc[f]]

Stamp(t) == [created_at |-> t, updated_at |-> t]

\* index of the first document whose _id is oid, 0 when there is none
FirstIndex(docs, oid) ==
    IF \E i \in 1..Len(docs) : docs[i]["_id"] = oid
    THEN CHOOSE i \in 1..Len(docs) :
            /\ docs[i]["_id"] = oid
            /\ \A j \in 1..(i - 1) : docs[j]["_id"] # oid
    ELSE 0

RemoveAt(docs, i) == SubSeq(docs, 1, i - 1) \o SubSeq(docs, i + 1, Len(docs))

(***************************************************************************)
(* database.py.  Each helper is an operator from the state it reads to its *)
(* outcome: the exception raised ("" when none), the value returned and    *)
(* the collections afterwards.                                             *)
(***************************************************************************)
Unavailable(d) == [raised |-> "StoreUnavailable", ret |-> FALSE, colls |-> d]

serialize_doc(doc) == [doc EXCEPT !["_id"] = ObjectIdStr(@)]

create_document(d, ready, clock, oid, collection_name, data) ==
    IF ~ready THEN [raised |-> "StoreUnavailable", ret |-> <<>>, colls |-> d]
    ELSE LET payload == Merge(data, Stamp(clock))
             doc     == Merge(payload, [_id |-> oid])
         IN  [raised |-> "",
              ret    |-> ObjectIdStr(oid),
              colls  |-> [d EXCEPT ![collection_name] = Append(@, doc)]]

RECURSIVE Matching(_, _)
Matching(docs, filter_dict) ==
    IF docs = <<>> THEN <<>>
    ELSE LET doc == Head(docs)
             hit == \A f \in DOMAIN filter_dict :
                        f \in DOMAIN doc /\ doc[f] = filter_dict[f]
         IN  (IF hit THEN <<serialize_doc(doc)>> ELSE <<>>)
             \o Matching(Tail(docs), filter_dict)

\* find(filter).limit(limit); a limit of 0 is no limit
get_documents(d, ready, collection_name, filter_dict, limit) ==
    IF ~ready THEN [raised |-> "StoreUnavailable", ret |-> <<>>, colls |-> d]
    ELSE LET all == Matching(d[collection_name], filter_dict)
         IN  [raised |-> "",
              ret    |-> IF limit > 0 /\ Len(all) > limit
                         THEN SubSeq(all, 1, limit) ELSE all,
              colls  |-> d]

NoDocument == [found |-> FALSE]

\* get_document_by_id querying {"_id": _id} with the string itself, which
\* equals no ObjectId
get_document_by_id_no_decode(d, ready, collection_name, id) ==
    IF ~ready THEN [raised |-> "StoreUnavailable", ret |-> NoDocument, colls |-> d]
    ELSE [raised |-> "", ret |-> NoDocument, colls |-> d]

get_document_by_id(d, ready, collection_name, id) ==
    IF ~ready THEN [raised |-> "StoreUnavailable", ret |-> NoDocument, colls |-> d]
    ELSE LET key == ObjectId(id)
             i   == IF key.ok THEN FirstIndex(d[collection_name], key.oid) ELSE 0
         IN  [raised |-> "",
              ret    |-> IF i = 0 THEN NoDocument
                         ELSE [found |-> TRUE,
                               doc |-> serialize_doc(d[collection_name][i])],
              colls  |-> d]

\* update_document passing the fields as a replacement document instead of
\* under $set
update_document_replace(d, ready, clock, collection_name, id, update_data) ==
    IF ~ready THEN Unavailable(d)
    ELSE LET set == Merge(update_data, [updated_at |-> clock])
             key == ObjectId(id)
         IN  IF ~key.ok THEN [raised |-> "InvalidId", ret |-> FALSE, colls |-> d]
             ELSE LET i == FirstIndex(d[collection_name], key.oid)
                  IN  IF i = 0 THEN [raised |-> "", ret |-> FALSE, colls |-> d]
                      ELSE LET old == d[collection_name][i]
                               new == Merge([_id |-> old["_id"]], set)
                           IN  [raised |-> "",
                                ret    |-> new # old,
                                colls  |-> [d EXCEPT ![collection_name][i] = new]]

update_document(d, ready, clock, collection_name, id, update_data) ==
    IF ~ready THEN Unavailable(d)
    ELSE LET set == Merge(update_data, [updated_at |-> clock])
             key == ObjectId(id)
         IN  IF ~key.ok THEN [raised |-> "InvalidId", ret |-> FALSE, colls |-> d]
             ELSE LET i == FirstIndex(d[collection_name], key.oid)
                  IN  IF i = 0 THEN [raised |-> "", ret |-> FALSE, colls |-> d]
                      ELSE LET old == d[collection_name][i]
                               new == Merge(old, set)
                               modified_count == IF new = old THEN 0 ELSE 1
                           IN  [raised |-> "",
                                ret    |-> modified_count > 0,
                                colls  |-> [d EXCEPT ![collection_name][i] = new]]

delete_document(d, ready, collection_name, id) ==
    IF ~ready THEN Unavailable(d)
    ELSE LET key == ObjectId(id)
         IN  IF ~key.ok THEN [raised |-> "InvalidId", ret |-> FALSE, colls |-> d]
             ELSE LET i == FirstIndex(d[collection_name], key.oid)
                      deleted_count == IF i = 0 THEN 0 ELSE 1
                  IN  [raised |-> "",
                       ret    |-> deleted_count > 0,
                       colls  |-> IF i = 0 THEN d
                                  ELSE [d EXCEPT ![collection_name] = RemoveAt(@, i)]]

(***************************************************************************)
(* schemas.py and the request models of main.py.  Optional fields left out *)
(* of a request hold None, written "None".                                 *)
(***************************************************************************)
OrderStatuses == {"pending", "preparing", "ready", "completed", "cancelled"}

\* Category(**payload.model_dump())
Category(payload) == Merge(payload, [is_active |-> TRUE])

\* Fooditem(**payload.model_dump()): price is Field(..., ge=0)
FooditemValid(payload) == payload.price >= 0

Fooditem(payload) == Merge(payload, [rating |-> 0])

\* User(name=..., email=..., password_hash=...)
User(name, email, password_hash) ==
    [name |-> name, email |-> email, password_hash |-> password_hash,
     is_admin |-> FALSE, avatar_url |-> "None", is_active |-> TRUE]

\* Order(...) as create_order builds it; status takes its default
Order(payload, order_number, subtotal, tax, total) ==
    [user_id |-> payload.user_id, order_number |-> order_number,
     items |-> payload.items, subtotal |-> subtotal, tax |-> tax,
     total |-> total, status |-> "pending", notes |-> payload.notes,
     contact_email |-> payload.contact_email,
     contact_phone |-> payload.contact_phone,
     pickup_name |-> payload.pickup_name]

(***************************************************************************)
(* main.py: the handlers of categories, food items and orders.  A handler  *)
(* ends with the exception it lets through ("HTTP404" for an               *)
(* HTTPException(404)) or with its response; 'oids' counts the ObjectIds   *)
(* it drew.                                                                *)
(***************************************************************************)
create_category(d, ready, clock, oid, payload) ==
    LET r == create_document(d, ready, clock, oid, "category", Category(payload))
    IN  [raised |-> r.raised, ret |-> r.ret, colls |-> r.colls,
         oids |-> IF r.raised = "" THEN 1 ELSE 0]

\* the shape shared by update_category, update_item and update_order_status
UpdateHandler(d, ready, clock, collection_name, id, fields) ==
    LET r == update_document(d, ready, clock, collection_name, id, fields)
    IN  IF r.raised # "" THEN r
        ELSE IF ~r.ret THEN [raised |-> "HTTP404", ret |-> FALSE, colls |-> r.colls]
        ELSE [raised |-> "", ret |-> TRUE, colls |-> r.colls]

\* the shape shared by remove_category and delete_item
DeleteHandler(d, ready, collection_name, id) ==
    LET r == delete_document(d, ready, collection_name, id)
    IN  IF r.raised # "" THEN r
        ELSE IF ~r.ret THEN [raised |-> "HTTP404", ret |-> FALSE, colls |-> r.colls]
        ELSE [raised |-> "", ret |-> TRUE, colls |-> r.colls]

update_category(d, ready, clock, category_id, payload) ==
    UpdateHandler(d, ready, clock, "category", category_id, payload)

remove_category(d, ready, category_id) ==
    DeleteHandler(d, ready, "category", category_id)

create_item(d, ready, clock, oid, payload) ==
    IF ~FooditemValid(payload)
    THEN [raised |-> "ValidationError", ret |-> <<>>, colls |-> d, oids |-> 0]
    ELSE LET r == create_document(d, ready, clock, oid, "fooditem", Fooditem(payload))
         IN  [raised |-> r.raised, ret |-> r.ret, colls |-> r.colls,
              oids |-> IF r.raised = "" THEN 1 ELSE 0]

update_item(d, ready, clock, item_id, payload) ==
    UpdateHandler(d, ready, clock, "fooditem", item_id, payload)

delete_item(d, ready, item_id) ==
    DeleteHandler(d, ready, "fooditem", item_id)

\* 0.08, the float the literal denotes
TaxRate == FFromRatio(<<8>>, 100)

\* sum(i.price * i.quantity for i in items): from the int 0, left to right
RECURSIVE SumLines(_, _)
SumLines(acc, items) ==
    IF items = <<>> THEN acc
    ELSE SumLines(FAdd(acc, FMul(Head(items).price, FFromInt(Head(items).quantity))),
                  Tail(items))

Subtotal(items) == SumLines(FZero, items)

Tax(subtotal) == Round2(FMul(subtotal, TaxRate))

Total(subtotal, tax) == Round2(FAdd(subtotal, tax))

\* f"ORD-{str(ObjectId())[-6:].upper()}": the last quarter of the digits
OrderNumber(oid) ==
    LET str == ObjectIdStr(oid)
        n   == IF IdLen < 4 THEN 1 ELSE IdLen \div 4
    IN  <<"O", "R", "D", "-">> \o Upper(SubSeq(str, Len(str) - n + 1, Len(str)))

\* create_order without its guard on an empty cart
create_order_unchecked(d, ready, clock, oid, payload) ==
    LET subtotal     == Subtotal(payload.items)
        tax          == Tax(subtotal)
        total        == Total(subtotal, tax)
        order_number == OrderNumber(oid)
        order        == Order(payload, order_number, subtotal, tax, total)
        r            == create_document(d, ready, clock, oid + 1, "order", order)
    IN  IF r.raised # ""
        THEN [raised |-> r.raised, ret |-> <<>>, colls |-> r.colls, oids |-> 1]
        ELSE [raised |-> "",
              ret    |-> [_id |-> r.ret, order_number |-> order_number,
                          total |-> total],
              colls  |-> r.colls,
              oids   |-> 2]

create_order(d, ready, clock, oid, payload) ==
    IF payload.items = <<>>
    THEN [raised |-> "HTTP400", ret |-> <<>>, colls |-> d, oids |-> 0]
    ELSE LET subtotal     == Subtotal(payload.items)
             tax          == Tax(subtotal)
             total        == Total(subtotal, tax)
             order_number == OrderNumber(oid)
             order        == Order(payload, order_number, subtotal, tax, total)
             r            == create_document(d, ready, clock, oid + 1, "order", order)
         IN  IF r.raised # ""
             THEN [raised |-> r.raised, ret |-> <<>>, colls |-> r.colls, oids |-> 1]
             ELSE [raised |-> "",
                   ret    |-> [_id |-> r.ret, order_number |-> order_number,
                               total |-> total],
                   colls  |-> r.colls,
                   oids   |-> 2]

get_order(d, ready, order_id) ==
    LET r == get_document_by_id(d, ready, "order", order_id)
    IN  IF r.raised # "" THEN r
        ELSE IF ~r.ret.found
             THEN [raised |-> "HTTP404", ret |-> NoDocument, colls |-> r.colls]
        ELSE r

update_order_status(d, ready, clock, order_id, payload) ==
    UpdateHandler(d, ready, clock, "order", order_id, [status |-> payload.status])

(***************************************************************************)
(* What callers send.                                                      *)
(***************************************************************************)
\* the first ObjectId drawn; its string form holds a letter
FirstOid == 10

\* a timestamp a caller may put in a payload: a future instant
CallerStamps == {MaxClock + 1}

\* payloads of direct callers of the store helpers: one of plain fields, one
\* that carries the audit fields too
Payloads ==
    {[name |-> "b"]}
    \cup {[name |-> "a", created_at |-> t, updated_at |-> t] : t \in CallerStamps}

\* the collection those callers work on (collection_name is only ever an
\* index into db, so one stands for all)
CallerCollections == {"category"}

\* identifier strings: those of the ObjectIds drawn in a run, the first one
\* in uppercase, and one that is no hex number
IdStrings ==
    {ObjectIdStr(oid) : oid \in FirstOid..(FirstOid + MaxOids - 1)}
    \cup {Upper(ObjectIdStr(FirstOid))}
    \cup {[i \in 1..IdLen |-> "z"]}

CategoryPayloads ==
    {[name |-> n, description |-> "None", image_url |-> "None"] : n \in {"a", "b"}}

\* prices of food items in whole currency units; only the sign matters here
ItemPrices == {-1, 0, 5}

FoodItemPayloads ==
    {[title |-> "t", description |-> "None", price |-> p, category_id |-> "c",
      image_url |-> "None", tags |-> <<>>, is_available |-> TRUE] : p \in ItemPrices}

\* cart prices as the decimal literals of the request, in thousandths
PriceMils == {1330, 3125}

Quantities == {2, 3}

\* lines of a cart
MaxLines == 2

CartItem(mils, quantity) ==
    [item_id |-> "i", title |-> "t", price |-> FFromRatio(BigFromInt(mils), 1000),
     quantity |-> quantity, image_url |-> "None"]

CartItems == {CartItem(m, q) : m \in PriceMils, q \in Quantities}

RECURSIVE SeqsUpTo(_, _)
SeqsUpTo(S, n) ==
    IF n = 0 THEN {<<>>}
    ELSE LET shorter == SeqsUpTo(S, n - 1)
         IN  shorter \cup {Append(sq, x) : sq \in shorter, x \in S}

CreateOrderRequest(items) ==
    [user_id |-> "None", items |-> items, notes |-> "None",
     contact_email |-> "None", contact_phone |-> "None", pickup_name |-> "None"]

Carts == SeqsUpTo(CartItems, MaxLines)

\* the carts and statuses the store-level specification sends
FewCarts == {<<>>, <<CartItem(3125, 3)>>}

FewStatuses == {"ready"}

\* UpdateOrderStatusRequest.status is a str
StatusStrings == OrderStatuses \cup {"shipped"}

\* signup requests
SignupRequests ==
    {[name |-> "n", email |-> e, password |-> "pw"] : e \in {"x@a", "y@a"}}

\* signup requests in flight at a time
MaxProcs == 2

Procs == 1..MaxProcs

(***************************************************************************)
(* Steps.  Every step records the call that made it in 'last'.             *)
(***************************************************************************)
NoArgs == [op |-> "init", coll |-> "", id |-> <<>>, payload |-> <<>>,
           raised |-> "", ret |-> FALSE]

Done(op, collection_name, id, payload, r) ==
    /\ colls' = r.colls
    /\ last' = [op |-> op, coll |-> collection_name, id |-> id,
                payload |-> payload, raised |-> r.raised, ret |-> r.ret]

OidsLeft == FirstOid + MaxOids - nextOid

Init ==
    /\ dbReady \in BOOLEAN
    /\ colls = [c \in Collections |-> <<>>]
    /\ now = 0
    /\ nextOid = FirstOid
    /\ pc = <<>>
    /\ last = NoArgs

\* the clock advances; it never goes back
Tick ==
    /\ now < MaxClock
    /\ now' = now + 1
    /\ last' = [NoArgs EXCEPT !.op = "tick"]
    /\ UNCHANGED <<dbReady, colls, nextOid, pc>>

CreateDocument(c, p) ==
    /\ OidsLeft >= 1
    /\ LET r == create_document(colls, dbReady, now, nextOid, c, p)
       IN  /\ Done("create_document", c, <<>>, p, r)
           /\ nextOid' = IF r.raised = "" THEN nextOid + 1 ELSE nextOid
    /\ UNCHANGED <<dbReady, now, pc>>

UpdateDocument(c, id, p) ==
    /\ Done("update_document", c, id, p, update_document(colls, dbReady, now, c, id, p))
    /\ UNCHANGED <<dbReady, now, nextOid, pc>>

DeleteDocument(c, id) ==
    /\ Done("delete_document", c, id, <<>>, delete_document(colls, dbReady, c, id))
    /\ UNCHANGED <<dbReady, now, nextOid, pc>>

CreateOrder(items) ==
    /\ OidsLeft >= 2
    /\ LET payload == CreateOrderRequest(items)
           r       == create_order(colls, dbReady, now, nextOid, payload)
       IN  /\ Done("create_order", "order", <<>>, payload, r)
           /\ nextOid' = nextOid + r.oids
    /\ UNCHANGED <<dbReady, now, pc>>

UpdateOrderStatus(id, status) ==
    /\ LET payload == [status |-> status]
       IN  Done("update_order_status", "order", id, payload,
                update_order_status(colls, dbReady, now, id, payload))
    /\ UNCHANGED <<dbReady, now, nextOid, pc>>

GetOrder(id) ==
    /\ Done("get_order", "order", id, <<>>, get_order(colls, dbReady, id))
    /\ UNCHANGED <<dbReady, now, nextOid, pc>>

\* the store helpers under direct callers, and the order handlers
Next ==
    \/ Tick
    \/ \E c \in CallerCollections, p \in Payloads : CreateDocument(c, p)
    \/ \E c \in CallerCollections, id \in IdStrings, p \in Payloads :
           UpdateDocument(c, id, p)
    \/ \E c \in CallerCollections, id \in IdStrings : DeleteDocument(c, id)
    \/ \E items \in FewCarts : CreateOrder(items)
    \/ \E id \in IdStrings, status \in FewStatuses : UpdateOrderStatus(id, status)

Spec == Init /\ [][Next]_vars

\* the order handlers under every cart and every status string
NextOrders ==
    \/ Tick
    \/ \E items \in Carts : CreateOrder(items)
    \/ \E id \in IdStrings, status \in StatusStrings : UpdateOrderStatus(id, status)
    \/ \E id \in IdStrings : GetOrder(id)

SpecOrders == Init /\ [][NextOrders]_vars

(***************************************************************************)
(* The catalogue handlers.                                                 *)
(***************************************************************************)
CreateCategory(p) ==
    /\ OidsLeft >= 1
    /\ LET r == create_category(colls, dbReady, now, nextOid, p)
       IN  /\ Done("create_category", "category", <<>>, p, r)
           /\ nextOid' = nextOid + r.oids
    /\ UNCHANGED <<dbReady, now, pc>>

UpdateCategory(id, p) ==
    /\ Done("update_category", "category", id, p,
            update_category(colls, dbReady, now, id, p))
    /\ UNCHANGED <<dbReady, now, nextOid, pc>>

RemoveCategory(id) ==
    /\ Done("remove_category", "category", id, <<>>, remove_category(colls, dbReady, id))
    /\ UNCHANGED <<dbReady, now, nextOid, pc>>

CreateItem(p) ==
    /\ OidsLeft >= 1
    /\ LET r == create_item(colls, dbReady, now, nextOid, p)
       IN  /\ Done("create_item", "fooditem", <<>>, p, r)
           /\ nextOid' = nextOid + r.oids
    /\ UNCHANGED <<dbReady, now, pc>>

UpdateItem(id, p) ==
    /\ Done("update_item", "fooditem", id, p, update_item(colls, dbReady, now, id, p))
    /\ UNCHANGED <<dbReady, now, nextOid, pc>>

DeleteItem(id) ==
    /\ Done("delete_item", "fooditem", id, <<>>, delete_item(colls, dbReady, id))
    /\ UNCHANGED <<dbReady, now, nextOid, pc>>

NextCatalog ==
    \/ Tick
    \/ \E p \in CategoryPayloads : CreateCategory(p)
    \/ \E id \in IdStrings, p \in CategoryPayloads : UpdateCategory(id, p)
    \/ \E id \in IdStrings : RemoveCategory(id)
    \/ \E p \in FoodItemPayloads : CreateItem(p)
    \/ \E id \in IdStrings, p \in FoodItemPayloads : UpdateItem(id, p)
    \/ \E id \in IdStrings : DeleteItem(id)

SpecCatalog == Init /\ [][NextCatalog]_vars

(***************************************************************************)
(* signup, one request per process.  Its two store calls are separate      *)
(* round trips: the handlers take no lock and the store has no unique      *)
(* index, so other requests may run between them.                          *)
(***************************************************************************)
Idle == [at |-> "idle", payload |-> <<>>]

\* pwd_context.hash(password): an opaque string
Hash(password) == <<"bcrypt", password>>

\* signup up to its existence query
signup_check(d, ready, payload) ==
    LET existing == get_documents(d, ready, "user", [email |-> payload.email], 1)
    IN  IF existing.raised # "" THEN existing
        ELSE IF existing.ret # <<>>
             THEN [raised |-> "HTTP400", ret |-> <<>>, colls |-> d]
        ELSE [raised |-> "", ret |-> <<>>, colls |-> d]

\* signup inserting under a unique index on email
signup_insert_unique(d, ready, clock, oid, payload) ==
    LET user == User(payload.name, payload.email, Hash(payload.password))
        r    == create_document(d, ready, clock, oid, "user", user)
    IN  IF r.raised # "" THEN r
        ELSE IF \E i \in 1..Len(d["user"]) : d["user"][i].email = payload.email
             THEN [raised |-> "DuplicateKeyError", ret |-> <<>>, colls |-> d]
        ELSE [raised |-> "",
              ret    |-> [user_id |-> r.ret, name |-> user.name,
                          email |-> user.email, is_admin |-> user.is_admin],
              colls  |-> r.colls]

\* signup from the hashing of the password on
signup_insert(d, ready, clock, oid, payload) ==
    LET user == User(payload.name, payload.email, Hash(payload.password))
        r    == create_document(d, ready, clock, oid, "user", user)
    IN  IF r.raised # "" THEN r
        ELSE [raised |-> "",
              ret    |-> [user_id |-> r.ret, name |-> user.name,
                          email |-> user.email, is_admin |-> user.is_admin],
              colls  |-> r.colls]

SignupCheck(p, payload) ==
    /\ pc[p].at = "idle"
    /\ LET r == signup_check(colls, dbReady, payload)
       IN  /\ Done("signup_check", "user", <<>>, payload, r)
           /\ pc' = [pc EXCEPT ![p] = IF r.raised = ""
                                      THEN [at |-> "checked", payload |-> payload]
                                      ELSE [at |-> "done", payload |-> <<>>]]
    /\ UNCHANGED <<dbReady, now, nextOid>>

SignupInsert(p) ==
    /\ pc[p].at = "checked"
    /\ OidsLeft >= 1
    /\ LET r == signup_insert(colls, dbReady, now, nextOid, pc[p].payload)
       IN  /\ Done("signup", "user", <<>>, pc[p].payload, r)
           /\ nextOid' = IF r.raised = "" THEN nextOid + 1 ELSE nextOid
    /\ pc' = [pc EXCEPT ![p] = [at |-> "done", payload |-> <<>>]]
    /\ UNCHANGED <<dbReady, now>>

InitSignup ==
    /\ dbReady \in BOOLEAN
    /\ colls = [c \in Collections |-> <<>>]
    /\ now = 0
    /\ nextOid = FirstOid
    /\ pc = [p \in Procs |-> Idle]
    /\ last = NoArgs

NextSignup ==
    \/ Tick
    \/ \E p \in Procs, payload \in SignupRequests : SignupCheck(p, payload)
    \/ \E p \in Procs : SignupInsert(p)

SpecSignup == InitSignup /\ [][NextSignup]_vars

(***************************************************************************)
(* Properties.                                                             *)
(***************************************************************************)
\* position in collection c of the record the identifier string names, 0
\* when it names none (a string that is no native key names none)
DocIndex(d, c, id) ==
    LET key == ObjectId(id) IN IF key.ok THEN FirstIndex(d[c], key.oid) ELSE 0

NamesRecord(d, c, id) == DocIndex(d, c, id) # 0

UpdateOps == {"update_document", "update_order_status"}

\* the step just taken was a call addressed to the record that id names in c
Addressed(l, c, id) ==
    /\ l.op \in UpdateOps \cup {"delete_document"}
    /\ l.coll = c
    /\ ObjectId(l.id).ok
    /\ ObjectId(l.id).oid = ObjectId(id).oid

\* round(x, 2) as the claim has it: a half goes up
RoundHalfUp2(x) == FFromRatio(Hundredths(x, TRUE), 100)

\* C1: the order create_order persists for a non-empty cart has subtotal =
\* the sum of price * quantity over its lines, tax = subtotal * 0.08 rounded
\* half-up to 2 digits and total = subtotal + tax rounded half-up to 2 digits
C1_TotalsRoundedHalfUp ==
    (last.op = "create_order" /\ last.raised = "") =>
        LET o == colls["order"][DocIndex(colls, "order", last.ret["_id"])]
        IN  /\ o.subtotal = SumLines(FZero, last.payload.items)
            /\ o.tax = RoundHalfUp2(FMul(o.subtotal, TaxRate))
            /\ o.total = RoundHalfUp2(FAdd(o.subtotal, o.tax))
            /\ last.ret.total = o.total

\* C2: update_order_status lets only the five status values through to the
\* store, so every order's status is one of the five
C2_StatusEnumerated ==
    /\ \A i \in 1..Len(colls["order"]) : colls["order"][i].status \in OrderStatuses
    /\ (last.op = "update_order_status" /\ last.raised = "")
           => last.payload.status \in OrderStatuses

\* C3: update_document with an identifier string that names no record of the
\* collection (a malformed one included) returns false, raises nothing and
\* leaves every collection as it was
C3_UnknownIdReturnsFalse ==
    [][(/\ last'.op = "update_document"
        /\ dbReady
        /\ ~NamesRecord(colls, last'.coll, last'.id))
       => (last'.raised = "" /\ last'.ret = FALSE /\ colls' = colls)]_vars

\* C4: update_document returns true iff a record with the identifier existed
\* (an update that changes no value included), so update_order_status never
\* answers 404 for an order that exists
C4_TrueIffRecordExisted ==
    /\ (last.op = "update_document" /\ last.raised = "")
           => (last.ret = NamesRecord(colls, last.coll, last.id))
    /\ (last.op = "update_order_status" /\ dbReady
            /\ NamesRecord(colls, last.coll, last.id))
           => last.raised = ""

TimestampsOrdered(d) ==
    \A c \in Collections : \A i \in 1..Len(d[c]) :
        d[c][i].updated_at >= d[c][i].created_at

\* C5: whatever the payloads carry, every record has updated_at >= created_at,
\* and a successful update never moves a record's updated_at back
C5_TimestampsMonotonic ==
    [][/\ TimestampsOrdered(colls')
       /\ (last'.op = "update_document" /\ last'.raised = ""
               /\ NamesRecord(colls, last'.coll, last'.id))
              => LET i == DocIndex(colls, last'.coll, last'.id)
                 IN  colls'[last'.coll][i].updated_at
                         >= colls[last'.coll][i].updated_at]_vars

\* C6: an update of an existing record changes the fields of the payload and
\* updated_at, and nothing else: not the record's other fields (its _id
\* among them), not another record, not another collection.  Through
\* update_order_status only status and updated_at change.
C6_UpdateChangesOnlySupplied ==
    [][(/\ last'.op \in UpdateOps
        /\ dbReady
        /\ NamesRecord(colls, last'.coll, last'.id))
       => LET c        == last'.coll
              i        == DocIndex(colls, c, last'.id)
              old      == colls[c][i]
              new      == colls'[c][i]
              supplied == DOMAIN last'.payload \cup {"updated_at"}
          IN  /\ Len(colls'[c]) = Len(colls[c])
              /\ \A j \in 1..Len(colls[c]) : j # i => colls'[c][j] = colls[c][j]
              /\ \A c2 \in Collections \ {c} : colls'[c2] = colls[c2]
              /\ DOMAIN new = DOMAIN old \cup supplied
              /\ \A f \in DOMAIN old \ supplied : new[f] = old[f]
              /\ \A f \in DOMAIN last'.payload \ {"updated_at"} :
                     new[f] = last'.payload[f]
              /\ new.updated_at = now
              /\ new["_id"] = old["_id"]
              /\ last'.op = "update_order_status" =>
                     \A f \in DOMAIN old \ {"status", "updated_at"} :
                         new[f] = old[f]]_vars

\* an update went through on one of two records of a collection, with a
\* payload that leaves fields of the record out
C6_Witness ==
    /\ last.op = "update_document"
    /\ last.raised = ""
    /\ last.ret = TRUE
    /\ Len(colls[last.coll]) >= 2
    /\ DOMAIN last.payload = {"name"}

\* C7: create_order with an empty line list ends in HTTP 400 and changes no
\* collection, whether or not the store is available
C7_EmptyCartRejected ==
    [][(last'.op = "create_order" /\ last'.payload.items = <<>>)
       => (last'.raised = "HTTP400" /\ colls' = colls /\ nextOid' = nextOid)]_vars

\* an empty cart was refused while the store was unavailable
C7_Witness ==
    /\ last.op = "create_order"
    /\ last.payload.items = <<>>
    /\ last.raised = "HTTP400"
    /\ ~dbReady

\* C8: a signup that passed its existence query inserts its user whatever the
\* collection holds by then, so two signups for one email can both succeed
C8_InsertAfterCheckAlwaysSucceeds ==
    [][\A p \in Procs :
          (pc[p].at = "checked" /\ pc'[p].at = "done" /\ dbReady)
          => /\ last'.raised = ""
             /\ Len(colls'["user"]) = Len(colls["user"]) + 1
             /\ colls'["user"][Len(colls'["user"])].email = pc[p].payload.email]_vars

\* two user records hold the same email
C8_Witness ==
    \E i, j \in 1..Len(colls["user"]) :
        i # j /\ colls["user"][i].email = colls["user"][j].email

\* C9: every record of fooditem has price >= 0
C9_PriceNonNegative ==
    \A i \in 1..Len(colls["fooditem"]) : colls["fooditem"][i].price >= 0

\* the identifier create_document returned resolves to the record created:
\* the payload's fields, the two timestamps equal, _id the identifier itself
CreatedResolves(l, d, ready) ==
    (l.op = "create_document" /\ l.raised = "") =>
        LET got == get_document_by_id(d, ready, l.coll, l.ret)
        IN  /\ got.raised = ""
            /\ got.ret.found
            /\ got.ret.doc["_id"] = l.ret
            /\ DOMAIN got.ret.doc
                   = DOMAIN l.payload \cup {"_id", "created_at", "updated_at"}
            /\ \A f \in DOMAIN l.payload \ {"created_at", "updated_at"} :
                   got.ret.doc[f] = l.payload[f]
            /\ got.ret.doc.created_at = got.ret.doc.updated_at

====
